---- MODULE Spec2Model ----
(***************************************************************************)
(* Two-stage scraping pipeline of scrapy_for_test: the pagination driver   *)
(* (scrape), the page cycle (scrape_page), detail enrichment, field        *)
(* extraction, discovery and the result store, for the two platform        *)
(* scrapers YuanjisongScraper and SxsapiScraper.                           *)
(*                                                                         *)
(* A listing is a Python dict: a function from a set of keys to values.    *)
(* All values are strings; an int is written as its digit string and the   *)
(* Python value None as the string None below.                             *)
(***************************************************************************)
EXTENDS Integers, Sequences, FiniteSets, TLC

VARIABLES
    platform,   \* self.platform_name
    max_pages,  \* argument of scrape
    page,       \* local `page` of scrape
    pc,         \* position of the driver: the states of the pagination driver
    all_jobs,   \* local `all_jobs` of scrape
    out_file,   \* content of <output_dir>/<platform_name>.json
    projects,   \* the dict objects created by discovery for the current page (mutated in place)
    tasks,      \* status of the enrichment of each project of the current page
    detailed,   \* detailed_projects: references (indices) into projects
    ret,        \* outcome of the last scrape_page call, as seen by scrape
    cands,      \* history: discovery output of the current page as discovered
    ev,         \* history: whether the detail fetch that ended last in this page failed
    saved,      \* history: outcome of the save_results call of the current page cycle
    requested,  \* history: page numbers whose listing page was requested
    pageRet,    \* history: what each page cycle handed to scrape
    stopReason, \* history: why pagination stopped
    beyond,     \* TRUE once the run is past the pages that are tracked exactly
    last_details, \* history: the detail record extracted from the detail page fetched last in this page
    \* a call of extract_project_links on its own
    disc_platform,  \* the scraper whose extract_project_links is called
    disc_markup,    \* its argument: the blocks or lines of the listing markup
    disc_out,       \* what it returned
    \* the fetch clients: WebScraper.scrape_page calls run by scrape_urls,
    \* BaseScraper._make_request calls
    client,         \* the class whose method the calls of the run are
    max_concurrent, \* WebScraper.max_concurrent
    retry_count,    \* argument retry_count of scrape_page; the 3 of range(3) in _make_request
    semaphore,      \* value of self.semaphore: the permits that are free
    calls,          \* the calls: position, loop variable `attempt`, history of attempts and waits
    session,        \* BaseScraper.session: the number of the session, NoSession for None
    created,        \* history: sessions created so far (the last one has this number)
    closed,         \* history: the sessions that were closed
    proxies,        \* history: calls of _get_proxy so far
    \* the proxy provider: a ProxyConfig and the calls made on it
    enabled,            \* ProxyConfig.enabled
    proxy_pool,         \* ProxyConfig.proxy_pool
    last_request_time,  \* ProxyConfig.last_request_time
    default_proxy,      \* ProxyConfig.default_proxy
    now,                \* time.time(), in seconds
    px,                 \* history of the call made last and of the upstream requests
    \* a call of an extraction or store function on its own
    call_fn,            \* the function that is called
    call_arg,           \* its argument
    call_out            \* what it returned or left behind

\* the pipeline, the discovery call, the fetch clients, the proxy provider,
\* the function called on its own
pvars == <<platform, max_pages, page, pc, all_jobs, out_file, projects, tasks,
           detailed, ret, cands, ev, saved, requested, pageRet, stopReason, beyond,
           last_details>>
dvars == <<disc_platform, disc_markup, disc_out>>
svars == <<session, created, closed, proxies>>
wvars == <<client, max_concurrent, retry_count, semaphore, calls, svars>>
xvars == <<enabled, proxy_pool, last_request_time, default_proxy, now, px>>

fvars == <<call_fn, call_arg, call_out>>

vars == <<pvars, dvars, wvars, xvars, fvars>>

\* Largest page number that is tracked exactly.
MaxPage == 2

----------------------------------------------------------------------------
(* Values and dicts *)

None == "<None>"          \* Python None
Absent == "<absent>"      \* the markup has no such element / the rule has no match

EmptyDict == [k \in {} |-> ""]

Update_KeepsOld(p, d) ==
    [k \in (DOMAIN p) \cup (DOMAIN d) |-> IF k \in DOMAIN p THEN p[k] ELSE d[k]]

\* dict.update / {**p, **d}: d's entries override p's
Update(p, d) ==
    [k \in (DOMAIN p) \cup (DOMAIN d) |-> IF k \in DOMAIN d THEN d[k] ELSE p[k]]

\* d.get(k)
Get(d, k) == IF k \in DOMAIN d THEN d[k] ELSE None

\* truth value of a dict, a list or a string
Truthy(d) == DOMAIN d # {}
TruthyStr(s) == s # None /\ s # ""

\* str.strip on the texts of the model: a text is blank or already trimmed
Strip(s) == IF s = " " THEN "" ELSE s

\* ''.join(filter(str.isdigit, text)) on the texts of the model
Digits(s) ==
    CASE s = "300/day" -> "300"
      [] s = "500"     -> "500"
      [] OTHER         -> ""

RECURSIVE Flatten(_)
Flatten(ss) == IF ss = <<>> THEN <<>> ELSE Head(ss) \o Flatten(Tail(ss))

RECURSIVE JoinTokens(_)
JoinTokens(ts) ==
    IF ts = <<>> THEN ""
    ELSE IF Head(ts) \in {"</", ">"} THEN JoinTokens(Tail(ts))
    ELSE Head(ts) \o JoinTokens(Tail(ts))

\* A raw link is its text cut in tokens, with what the code tests of it.
\* clean_url: drop the "</" and ">" artifacts, '' for a javascript: link,
\* prefix the site for a relative link.
clean_url(base, raw) ==
    LET url == JoinTokens(raw.tokens)
    IN  IF raw.js THEN ""
        ELSE IF ~raw.http THEN base \o url
        ELSE url

Y_BASE == "https://www.yuanjisong.com"
S_BASE == "https://sxsapi.com"

----------------------------------------------------------------------------
(* Discovery: extract_project_links *)

\* YuanjisongScraper.extract_project_links over the project containers of the
\* listing page.  A container is what the code looks up in it: the first <a>
\* whose href holds '/job/' (link, href), the <b> inside it (hasB, b) and the
\* price span (price).
Y_project_of(c) ==
    LET p0 == EmptyDict
        p1 == IF c.link THEN Update(p0, [url |-> clean_url(Y_BASE, c.href)]) ELSE p0
        p2 == IF c.link /\ c.hasB THEN Update(p1, [title |-> Strip(c.b)]) ELSE p1
        p3 == IF c.price # Absent
              THEN Update(p2, [price |-> IF Digits(c.price) = c.price THEN c.price ELSE "0"])
              ELSE p2
    IN  p3

RECURSIVE Y_extract_project_links(_)
Y_extract_project_links(html) ==
    IF html = <<>> THEN <<>>
    ELSE LET project == Y_project_of(Head(html))
             rest == Y_extract_project_links(Tail(html))
         IN  IF {"url", "title"} \subseteq DOMAIN project
             THEN <<project>> \o rest
             ELSE rest

\* SxsapiScraper.extract_project_links over the lines of the listing markdown.
\* A line is what the code tests of it: blank, holding a denylist phrase
\* (nav), matching the heading pattern (title, url, price groups), the
\* duration pattern or the deadline pattern (value group).
RECURSIVE S_scan(_, _, _)
S_scan(lines, found, current) ==
    IF lines = <<>>
    THEN IF Truthy(current) THEN Append(found, current) ELSE found
    ELSE LET line == Head(lines)
             rest == Tail(lines)
         IN  IF line.kind = "blank" \/ line.nav
             THEN S_scan(rest, found, current)
             ELSE IF line.kind = "heading"
             THEN S_scan(rest,
                         IF Truthy(current) THEN Append(found, current) ELSE found,
                         [title |-> Strip(line.title),
                          url   |-> clean_url(S_BASE, line.url),
                          price |-> Strip(line.price)])
             ELSE IF line.kind = "duration" /\ Truthy(current)
             THEN S_scan(rest, found, Update(current, [duration |-> line.value]))
             ELSE IF line.kind = "deadline" /\ Truthy(current)
             THEN S_scan(rest, found, Update(current, [deadline |-> line.value]))
             ELSE S_scan(rest, found, current)

S_extract_project_links(markdown) == S_scan(markdown, <<>>, EmptyDict)

----------------------------------------------------------------------------
(* Field extraction: extract_project_details *)

\* YuanjisongScraper.extract_project_details.  The detail page is what the
\* selectors find in it: the text of the first h2, the value of the daily
\* salary row, the first paragraph of the description block.  int('') on a
\* salary without digits raises ValueError, which the outer handler turns into
\* the empty record.
Y_extract_project_details(html) ==
    LET title == IF html.h2 = Absent THEN None ELSE Strip(html.h2)
        d0 == [title |-> title]
        raises == html.salary # Absent /\ Digits(html.salary) = ""
        d1 == IF html.salary # Absent
              THEN Update(d0, [daily_salary |-> Digits(html.salary)])
              ELSE d0
        d2 == IF html.desc # Absent
              THEN Update(d1, [description |-> Strip(html.desc)])
              ELSE d1
    IN  IF raises THEN EmptyDict ELSE d2

\* SxsapiScraper.extract_project_details.  The detail markdown is the groups
\* its patterns match: title (text after '#'), duration.
S_extract_project_details(markdown) ==
    LET d0 == EmptyDict
        d1 == IF markdown.title # Absent
              THEN Update(d0, [title |-> Strip(markdown.title)])
              ELSE d0
        d2 == IF markdown.duration # Absent
              THEN Update(d1, [duration |-> markdown.duration])
              ELSE d1
    IN  d2

----------------------------------------------------------------------------
(* The page source: what a fetch can return *)

Y_A == [link |-> TRUE, href |-> [tokens |-> <<"/job/1">>, js |-> FALSE, http |-> FALSE],
        hasB |-> TRUE, b |-> "A", price |-> "500"]
Y_B == [link |-> TRUE,
        href |-> [tokens |-> <<"https://www.yuanjisong.com/job/2">>, js |-> FALSE, http |-> TRUE],
        hasB |-> TRUE, b |-> "B", price |-> Absent]
Y_N == [link |-> TRUE, href |-> [tokens |-> <<"/job/3">>, js |-> FALSE, http |-> FALSE],
        hasB |-> FALSE, b |-> Absent, price |-> "500"]

Y_ListPages == { <<Y_N>>, <<Y_A>>, <<Y_A, Y_N, Y_B>>, <<Y_A, Y_A>> }

Y_DetailPages ==
    { [h2 |-> "T", salary |-> "300/day", desc |-> "D"],
      [h2 |-> Absent, salary |-> Absent, desc |-> Absent],
      [h2 |-> "T", salary |-> "negotiable", desc |-> "D"] }

S_Line(kind, nav, title, post, price, value) ==
    [kind |-> kind, nav |-> nav, title |-> title,
     url |-> [tokens |-> <<"https://sxsapi.com/", "</", post, ">">>, js |-> FALSE, http |-> TRUE],
     price |-> price, value |-> value]

S_HA == S_Line("heading", FALSE, "A", "post/1", "5k", Absent)
S_HB == S_Line("heading", FALSE, "B", "post/2", "1w", Absent)
S_HNAV == S_Line("heading", TRUE, "login", "post/3", "1w", Absent)
S_DUR == S_Line("duration", FALSE, Absent, "", Absent, "30d")
S_TXT == S_Line("other", FALSE, Absent, "", Absent, Absent)

S_ListPages ==
    { <<S_TXT>>, <<S_HA>>, <<S_HA, S_DUR, S_HNAV, S_HB>>, <<S_HA, S_HA>> }

S_DetailPages ==
    { [title |-> "T", duration |-> "45d"],
      [title |-> Absent, duration |-> Absent] }

NoMarkup == <<>>

\* Outcomes of the listing fetch (crawler.arun of the listing url):
\* it raises, returns no result, returns a result without markup, or returns
\* markup.
ListOutcomes(pl) ==
    {[kind |-> k, markup |-> NoMarkup] : k \in {"raise", "none", "empty"}}
    \cup {[kind |-> "ok", markup |-> m] :
            m \in IF pl = "yuanjisong" THEN Y_ListPages ELSE S_ListPages}

\* Outcomes of a detail fetch: it raises, hits the 30 s limit
\* (yuanjisong only), returns no result, returns a failed result, returns a
\* result with empty markup, or returns markup.
DetailFailures(pl) ==
    IF pl = "yuanjisong"
    THEN {"raise", "timeout", "none", "fail", "empty"}
    ELSE {"raise", "none", "fail", "empty"}

DetailOutcomes(pl) ==
    {[kind |-> k, markup |-> NoMarkup] : k \in DetailFailures(pl)}
    \cup {[kind |-> "ok", markup |-> m] :
            m \in IF pl = "yuanjisong" THEN Y_DetailPages ELSE S_DetailPages}

\* Outcomes of writing the output file: written, open() fails (file left as it
\* was), or the dump fails after open() truncated the file.
WriteOutcomes == {"ok", "open_fails", "dump_fails"}

----------------------------------------------------------------------------
(* Result store and enrichment *)

NoFile == [valid |-> FALSE, data |-> <<>>]

WriteFile_Appends(file, results, w) ==
    CASE w = "ok"         -> [valid |-> TRUE, data |-> file.data \o results]
      [] w = "open_fails" -> file
      [] w = "dump_fails" -> NoFile

\* The write of save_results and of the final save of scrape:
\* open(..., 'w') then json.dump, any failure logged and swallowed.
\* valid: the file holds a complete JSON document, whose array is data.
WriteFile(file, results, w) ==
    CASE w = "ok"         -> [valid |-> TRUE, data |-> results]
      [] w = "open_fails" -> file
      [] w = "dump_fails" -> NoFile

\* BaseScraper.save_results
save_results(file, results, w) == WriteFile(file, results, w)

Y_scrape_detail_page_MarksFailure(project, o) ==
    IF o.kind \in {"raise", "timeout"} THEN Update(project, [error |-> o.kind])
    ELSE IF o.kind \in {"none", "fail"} THEN project
    ELSE IF o.kind = "empty" THEN project
    ELSE LET details == Y_extract_project_details(o.markup)
         IN  IF Truthy(details) THEN Update(project, details) ELSE project

Y_scrape_detail_page_ReplacesByDetails(project, o) ==
    IF o.kind \in {"raise", "timeout"} THEN project
    ELSE IF o.kind \in {"none", "fail"} THEN project
    ELSE IF o.kind = "empty" THEN project
    ELSE LET details == Y_extract_project_details(o.markup)
         IN  IF Truthy(details) THEN details ELSE project

\* YuanjisongScraper._scrape_detail_page: the state of the project dict when
\* the task ends; the task returns that same dict on every path.
Y_scrape_detail_page(project, o) ==
    IF o.kind \in {"raise", "timeout"} THEN project
    ELSE IF o.kind \in {"none", "fail"} THEN project
    ELSE IF o.kind = "empty" THEN project
    ELSE LET details == Y_extract_project_details(o.markup)
         IN  IF Truthy(details) THEN Update(project, details) ELSE project

\* One iteration of the detail loop of SxsapiScraper.scrape_page: the state of
\* the project dict after it and whether it was appended to detailed_projects.
S_detail_step(project, o) ==
    IF o.kind = "raise" THEN [project |-> project, appended |-> TRUE]
    ELSE IF o.kind \in {"none", "fail", "empty"} THEN [project |-> project, appended |-> TRUE]
    ELSE LET details == S_extract_project_details(o.markup)
         IN  IF Truthy(details)
             THEN [project |-> Update(project, details), appended |-> TRUE]
             ELSE [project |-> project, appended |-> FALSE]

\* The list a sequence of references denotes
Deref(ps, idx) == [j \in 1..Len(idx) |-> ps[idx[j]]]

\* Result processing after gather returned (yuanjisong): every result that is
\* not an exception and is truthy is appended, in task order.
RECURSIVE Y_collect(_, _)
Y_collect(ps, i) ==
    IF i > Len(ps) THEN <<>>
    ELSE (IF Truthy(ps[i]) THEN <<i>> ELSE <<>>) \o Y_collect(ps, i + 1)

\* Fallback after the aggregate timeout (yuanjisong): every project whose url
\* is not yet the url of an element of detailed_projects is appended.
RECURSIVE Y_fallback(_, _, _)
Y_fallback(ps, i, det) ==
    IF i > Len(ps) THEN det
    ELSE IF \E j \in 1..Len(det) : Get(ps[det[j]], "url") = ps[i]["url"]
         THEN Y_fallback(ps, i + 1, det)
         ELSE Y_fallback(ps, i + 1, Append(det, i))

CapReached_OffByOne(mp, pg) == mp # 0 /\ pg > mp

CapReached_Never(mp, pg) == FALSE

\* max_pages and page >= max_pages
CapReached(mp, pg) == mp # 0 /\ pg >= mp

Extend_Dedup(jobs, ps) ==
    jobs \o SelectSeq(ps, LAMBDA p : \A i \in 1..Len(jobs) : Get(jobs[i], "url") # Get(p, "url"))

\* all_jobs.extend(projects)
Extend(jobs, ps) == jobs \o ps

LoopOutcome_ContinueOnEmpty(r, mp, pg) ==
    IF r.raised THEN "exception"
    ELSE IF CapReached(mp, pg) THEN "cap"
    ELSE "continue"

LoopOutcome_ContinueOnException(r, mp, pg) ==
    IF ~r.raised /\ ~Truthy(r.projects) THEN "empty"
    ELSE IF CapReached(mp, pg) THEN "cap"
    ELSE "continue"

LoopOutcome_ContinueAtCap(r, mp, pg) ==
    IF r.raised THEN "exception"
    ELSE IF ~Truthy(r.projects) THEN "empty"
    ELSE "continue"

\* The way the body of the while loop of scrape leaves, given what
\* scrape_page handed back: the except clause, the break on an empty result,
\* the break on the cap, or the next iteration.
LoopOutcome(r, mp, pg) ==
    IF r.raised THEN "exception"
    ELSE IF ~Truthy(r.projects) THEN "empty"
    ELSE IF CapReached(mp, pg) THEN "cap"
    ELSE "continue"

----------------------------------------------------------------------------
(* State machine *)

NoEv == "idle"

\* What the state keeps of a detail fetch that ended: whether it failed
EventOf(o) == IF o.kind = "ok" THEN "fetched" ELSE "failed"

\* and the record extract_project_details made of its markup
NoDetails == Absent
DetailsOf(pl, o) ==
    IF o.kind # "ok" THEN NoDetails
    ELSE IF pl = "yuanjisong" THEN Y_extract_project_details(o.markup)
    ELSE S_extract_project_details(o.markup)

\* The concurrency bound the repository configures its admission gate with
DefaultMaxConcurrent == 3

\* No call of extract_project_links on its own, no fetch client in use
NoOut == <<[pending |-> "call"]>>
DiscIdle ==
    /\ disc_platform = "none"
    /\ disc_markup = <<>>
    /\ disc_out = NoOut

\* self.session is None
NoSession == 0

WebIdle ==
    /\ client = "none"
    /\ retry_count = 0
    /\ semaphore = max_concurrent
    /\ calls = <<>>
    /\ session = NoSession
    /\ created = 0
    /\ closed = {}
    /\ proxies = 0

\* No ProxyConfig in use
NoCall == [op |-> "none"]
ProxyIdle ==
    /\ enabled = TRUE
    /\ proxy_pool = <<>>
    /\ last_request_time = 0
    /\ default_proxy = <<>>
    /\ now = 0
    /\ px = NoCall

\* No function called on its own
NoResult == [pending |-> TRUE]
FnIdle ==
    /\ call_fn = "none"
    /\ call_arg = <<>>
    /\ call_out = NoResult

NoRet == [raised |-> FALSE, projects |-> <<>>]
Platforms == {"yuanjisong", "sxsapi"}

PipeInit ==
    /\ platform \in Platforms
    /\ max_pages \in 0..MaxPage
    /\ page = 1
    /\ pc = "FetchingPage"
    /\ all_jobs = <<>>
    /\ out_file = NoFile
    /\ projects = <<>>
    /\ tasks = <<>>
    /\ detailed = <<>>
    /\ ret = NoRet
    /\ cands = <<>>
    /\ ev = NoEv
    /\ saved = "none"
    /\ requested = <<>>
    /\ pageRet = <<>>
    /\ stopReason = "none"
    /\ beyond = FALSE
    /\ last_details = NoDetails

Init ==
    /\ ProxyIdle
    /\ FnIdle
    /\ PipeInit
    /\ DiscIdle
    /\ max_concurrent = DefaultMaxConcurrent
    /\ WebIdle

\* scrape_page returns (or raises) without having discovered anything and
\* without saving.
ReturnNothing(raised) ==
    /\ ret' = [raised |-> raised, projects |-> <<>>]
    /\ pc' = "Returned"
    /\ UNCHANGED <<out_file, projects, tasks, detailed, cands, saved>>

\* scrape_page saves detailed_projects and returns it.
SaveAndReturn_RaisesOnWriteFailure(ps, det, w) ==
    /\ out_file' = save_results(out_file, Deref(ps, det), w)
    /\ saved' = w
    /\ detailed' = det
    /\ ret' = IF w = "ok" THEN [raised |-> FALSE, projects |-> Deref(ps, det)]
              ELSE [raised |-> TRUE, projects |-> <<>>]
    /\ pc' = "Returned"

SaveAndReturn(ps, det, w) ==
    /\ out_file' = save_results(out_file, Deref(ps, det), w)
    /\ saved' = w
    /\ detailed' = det
    /\ ret' = [raised |-> FALSE, projects |-> Deref(ps, det)]
    /\ pc' = "Returned"

\* scrape calls scrape_page(page): the listing fetch and discovery.  In
\* yuanjisong an exception is caught inside scrape_page, which returns [];
\* in sxsapi it propagates to scrape.  With no project discovered the page
\* cycle runs to its end at once: the empty result is saved and returned.
ListFetch ==
    /\ pc = "FetchingPage"
    /\ requested' = IF beyond THEN requested ELSE Append(requested, page)
    /\ \E o \in ListOutcomes(platform) :
         IF o.kind = "raise" THEN ReturnNothing(platform = "sxsapi")
         ELSE IF o.kind \in {"none", "empty"} THEN ReturnNothing(FALSE)
         ELSE LET found == IF platform = "yuanjisong"
                           THEN Y_extract_project_links(o.markup)
                           ELSE S_extract_project_links(o.markup)
              IN  IF found = <<>>
                  THEN /\ \E w \in WriteOutcomes : SaveAndReturn(<<>>, <<>>, w)
                       /\ UNCHANGED <<projects, tasks, cands>>
                  ELSE /\ projects' = found
                       /\ cands' = found
                       /\ tasks' = [i \in 1..Len(found) |-> "pending"]
                       /\ pc' = "Enriching"
                       /\ UNCHANGED <<out_file, detailed, ret, saved>>
    /\ UNCHANGED <<dvars, wvars, xvars, fvars, platform, max_pages, page, all_jobs, ev, pageRet, stopReason, beyond,
                   last_details>>

\* yuanjisong: the enrichment task of project i ends.
DetailDone(i) ==
    /\ pc = "Enriching"
    /\ platform = "yuanjisong"
    /\ i \in 1..Len(tasks)
    /\ tasks[i] = "pending"
    /\ \E o \in DetailOutcomes(platform) :
         /\ projects' = [projects EXCEPT ![i] = Y_scrape_detail_page(projects[i], o)]
         /\ ev' = EventOf(o)
         /\ last_details' = DetailsOf(platform, o)
    /\ tasks' = [tasks EXCEPT ![i] = "done"]
    /\ UNCHANGED <<dvars, wvars, xvars, fvars, platform, max_pages, page, pc, all_jobs, out_file, detailed, ret,
                   cands, saved, requested, pageRet, stopReason, beyond>>

\* yuanjisong: gather returns once every task has ended; the results are
\* collected, saved and returned.
GatherDone ==
    /\ pc = "Enriching"
    /\ platform = "yuanjisong"
    /\ \A i \in 1..Len(tasks) : tasks[i] = "done"
    /\ \E w \in WriteOutcomes : SaveAndReturn(projects, Y_collect(projects, 1), w)
    /\ ev' = NoEv
    /\ last_details' = NoDetails
    /\ UNCHANGED <<dvars, wvars, xvars, fvars, platform, max_pages, page, all_jobs, projects, tasks,
                   cands, requested, pageRet, stopReason, beyond>>

\* timeout=30 of the wait_for around the detail fetch
DetailTimeout == 30

\* timeout=len(projects) * 10 of the wait_for around gather
AggregateDeadline(n) == n * 10

AggregateTimeout_LeavesRunning ==
    /\ pc = "Enriching"
    /\ platform = "yuanjisong"
    /\ \E i \in 1..Len(tasks) : tasks[i] = "pending"
    /\ \E w \in WriteOutcomes : SaveAndReturn(projects, Y_fallback(projects, 1, <<>>), w)
    /\ ev' = NoEv
    /\ last_details' = NoDetails
    /\ UNCHANGED <<dvars, wvars, xvars, fvars, platform, max_pages, page, all_jobs, projects, tasks,
                   cands, requested, pageRet, stopReason, beyond>>

\* yuanjisong: the aggregate deadline expires while a task is still running;
\* the running tasks are cancelled, the fallback fills detailed_projects,
\* which is saved and returned.
AggregateTimeout ==
    /\ pc = "Enriching"
    /\ platform = "yuanjisong"
    /\ \E i \in 1..Len(tasks) : tasks[i] = "pending"
    /\ tasks' = [i \in 1..Len(tasks) |-> IF tasks[i] = "pending" THEN "cancelled" ELSE tasks[i]]
    /\ \E w \in WriteOutcomes : SaveAndReturn(projects, Y_fallback(projects, 1, <<>>), w)
    /\ ev' = NoEv
    /\ last_details' = NoDetails
    /\ UNCHANGED <<dvars, wvars, xvars, fvars, platform, max_pages, page, all_jobs, projects,
                   cands, requested, pageRet, stopReason, beyond>>

\* sxsapi: the detail fetch of the next project of the loop returns; after
\* the last project the page result is saved and returned.
SxDetail ==
    /\ pc = "Enriching"
    /\ platform = "sxsapi"
    /\ \E i \in 1..Len(tasks) :
         /\ tasks[i] = "pending"
         /\ \A j \in 1..(i - 1) : tasks[j] = "done"
         /\ \E o \in DetailOutcomes(platform) :
              LET step == S_detail_step(projects[i], o)
                  ps == [projects EXCEPT ![i] = step.project]
                  det == IF step.appended THEN Append(detailed, i) ELSE detailed
              IN  /\ projects' = ps
                  /\ ev' = EventOf(o)
                  /\ last_details' = DetailsOf(platform, o)
                  /\ tasks' = [tasks EXCEPT ![i] = "done"]
                  /\ IF i = Len(tasks)
                     THEN \E w \in WriteOutcomes : SaveAndReturn(ps, det, w)
                     ELSE /\ detailed' = det
                          /\ UNCHANGED <<out_file, saved, ret, pc>>
    /\ UNCHANGED <<dvars, wvars, xvars, fvars, platform, max_pages, page, all_jobs,
                   cands, requested, pageRet, stopReason, beyond>>

ClearPage ==
    /\ projects' = <<>>
    /\ tasks' = <<>>
    /\ detailed' = <<>>
    /\ cands' = <<>>
    /\ ev' = NoEv
    /\ last_details' = NoDetails
    /\ saved' = "none"
    /\ ret' = NoRet

\* The body of the while loop of scrape after scrape_page came back: an
\* exception or an empty result ends the loop; otherwise the result is added,
\* the cap is checked and the page counter incremented.
LoopStep ==
    /\ pc = "Returned"
    /\ pageRet' = IF beyond THEN pageRet ELSE Append(pageRet, ret)
    /\ LET branch == LoopOutcome(ret, max_pages, page)
       IN  CASE branch = "exception" ->
                  /\ pc' = "FinalSave"
                  /\ stopReason' = "exception"
                  /\ UNCHANGED <<all_jobs, page>>
             [] branch = "empty" ->
                  /\ pc' = "FinalSave"
                  /\ stopReason' = "empty"
                  /\ UNCHANGED <<all_jobs, page>>
             [] branch = "cap" ->
                  /\ all_jobs' = Extend(all_jobs, ret.projects)
                  /\ pc' = "FinalSave"
                  /\ stopReason' = "cap"
                  /\ UNCHANGED page
             [] branch = "continue" ->
                  /\ page < MaxPage
                  /\ all_jobs' = Extend(all_jobs, ret.projects)
                  /\ page' = page + 1
                  /\ pc' = "NextPage"
                  /\ UNCHANGED stopReason
    /\ ClearPage
    /\ UNCHANGED <<dvars, wvars, xvars, fvars, platform, max_pages, out_file, requested, beyond>>

\* The inter-page delay: asyncio.sleep(rate_limit)
Sleep ==
    /\ pc = "NextPage"
    /\ pc' = "FetchingPage"
    /\ UNCHANGED <<dvars, wvars, xvars, fvars, platform, max_pages, page, all_jobs, out_file, projects, tasks,
                   detailed, ret, cands, ev, saved, requested, pageRet, stopReason, beyond,
                   last_details>>

\* The final save of scrape, then the return of all_jobs.
FinalSave ==
    /\ pc = "FinalSave"
    /\ \E w \in WriteOutcomes :
         /\ out_file' = WriteFile(out_file, all_jobs, w)
         /\ saved' = w
    /\ pc' = "Stopped"
    /\ UNCHANGED <<dvars, wvars, xvars, fvars, platform, max_pages, page, all_jobs, projects, tasks,
                   detailed, ret, cands, ev, requested, pageRet, stopReason, beyond,
                   last_details>>

Next ==
    \/ ListFetch
    \/ \E i \in DOMAIN tasks : DetailDone(i)
    \/ GatherDone
    \/ AggregateTimeout
    \/ SxDetail
    \/ LoopStep
    \/ Sleep
    \/ FinalSave

Spec == Init /\ [][Next]_vars

\* The pipeline next to an admission gate of any configured size
GateSizes == 1..3

GateInit ==
    /\ ProxyIdle
    /\ FnIdle
    /\ PipeInit
    /\ DiscIdle
    /\ max_concurrent \in GateSizes
    /\ WebIdle

GateSpec == GateInit /\ [][Next]_vars

TypeOK ==
    /\ pc \in {"FetchingPage", "Enriching", "Returned", "NextPage", "FinalSave", "Stopped"}
    /\ page \in 1..MaxPage
    /\ Len(tasks) = Len(projects)
    /\ Len(cands) = Len(projects)

\* Continuation of the loop past page MaxPage, for runs without an end: from
\* there on the page counter stands for "MaxPage or more" and the accumulated
\* list and the page history are no longer tracked (beyond = TRUE).  Same branch of the loop body as
\* the last one of LoopStep.
BeyondBound ==
    /\ pc = "Returned"
    /\ LoopOutcome(ret, max_pages, page) = "continue"
    /\ page = MaxPage
    /\ pc' = "NextPage"
    /\ beyond' = TRUE
    /\ all_jobs' = <<>>
    /\ pageRet' = <<>>
    /\ ClearPage
    /\ UNCHANGED <<dvars, wvars, xvars, fvars, platform, max_pages, page, out_file, requested, stopReason>>

LiveNext == Next \/ BeyondBound

\* Every fetch and every delay completes, and the event loop keeps running
\* what is runnable.
LiveSpec == Init /\ [][LiveNext]_vars /\ WF_vars(LiveNext)

----------------------------------------------------------------------------
(* extract_project_links called on its own, over any listing markup *)

\* Longest listing markup (blocks or lines) the call is given
MaxBlocks == 3

\* A container whose link is a javascript: href that holds '/job/', one whose
\* <b> holds only white space, one without a job link
Y_JS == [link |-> TRUE,
         href |-> [tokens |-> <<"javascript:open('/job/4')">>, js |-> TRUE, http |-> FALSE],
         hasB |-> TRUE, b |-> "J", price |-> Absent]
Y_BLANK == [link |-> TRUE, href |-> [tokens |-> <<"/job/5">>, js |-> FALSE, http |-> FALSE],
            hasB |-> TRUE, b |-> " ", price |-> Absent]
Y_NOLINK == [link |-> FALSE, href |-> [tokens |-> <<>>, js |-> FALSE, http |-> FALSE],
             hasB |-> FALSE, b |-> Absent, price |-> "500"]

\* The texts of the model that hold a phrase of the denylist of
\* SxsapiScraper.extract_project_links
DenylistTexts == {"login"}

\* A container whose title holds a phrase of that denylist
Y_NAV == [link |-> TRUE, href |-> [tokens |-> <<"/job/6">>, js |-> FALSE, http |-> FALSE],
          hasB |-> TRUE, b |-> "login", price |-> Absent]

Y_Blocks == {Y_A, Y_B, Y_N, Y_JS, Y_BLANK, Y_NOLINK, Y_NAV}

\* A heading line whose bracket holds only white space, an empty line
S_HBLANK == S_Line("heading", FALSE, " ", "post/4", "5k", Absent)
S_EMPTY == S_Line("blank", FALSE, Absent, "", Absent, Absent)

S_Lines == {S_HA, S_HB, S_HNAV, S_DUR, S_TXT, S_HBLANK, S_EMPTY}

SeqsUpTo(S, n) == UNION {[1..m -> S] : m \in 0..n}

extract_project_links(pl, markup) ==
    IF pl = "yuanjisong" THEN Y_extract_project_links(markup)
    ELSE S_extract_project_links(markup)

\* No run of the pipeline
PipeIdle ==
    /\ platform = "none"
    /\ max_pages = 0
    /\ page = 1
    /\ pc = "Idle"
    /\ all_jobs = <<>>
    /\ out_file = NoFile
    /\ projects = <<>>
    /\ tasks = <<>>
    /\ detailed = <<>>
    /\ ret = NoRet
    /\ cands = <<>>
    /\ ev = NoEv
    /\ saved = "none"
    /\ requested = <<>>
    /\ pageRet = <<>>
    /\ stopReason = "none"
    /\ beyond = FALSE
    /\ last_details = NoDetails

DiscInit ==
    /\ ProxyIdle
    /\ FnIdle
    /\ PipeIdle
    /\ max_concurrent = DefaultMaxConcurrent
    /\ WebIdle
    /\ disc_platform \in Platforms
    /\ disc_markup \in SeqsUpTo(IF disc_platform = "yuanjisong" THEN Y_Blocks ELSE S_Lines,
                                 MaxBlocks)
    /\ disc_out = NoOut

\* The call returns
Discover ==
    /\ disc_platform \in Platforms
    /\ disc_out = NoOut
    /\ disc_out' = extract_project_links(disc_platform, disc_markup)
    /\ UNCHANGED <<pvars, wvars, xvars, fvars, disc_platform, disc_markup>>

DiscNext == Discover

DiscSpec == DiscInit /\ [][DiscNext]_vars

----------------------------------------------------------------------------
(* The fetch clients: WebScraper.scrape_page calls run concurrently by       *)
(* scrape_urls, and BaseScraper._make_request calls made on one scraper      *)

\* Number of calls of a run
NCalls == 2

\* Number of _make_request calls made on the one BaseScraper
BaseCalls == 2

\* retry_count: int = 3; a caller may give less
DefaultRetryCount == 3

\* range(3) in _make_request
MakeRequestAttempts == 3

Clients == {"WebScraper", "BaseScraper"}

\* What an attempt can end in: status 200 and a body, status 200 and an empty
\* body, another status, an exception (also a timeout, and the TypeError on
\* the None that scrape_with_playwright returns after an error)
AttemptOutcomes == {"ok", "empty", "non200", "exception"}

Backoff_Constant(attempt) == 2

\* asyncio.sleep(2 * (attempt + 1)), time.sleep(2 * (attempt + 1))
Backoff(attempt) == 2 * (attempt + 1)

\* attempt < retry_count - 1, attempt < 2
RetryLeft(attempt, cap) == attempt < cap - 1

semaphore_exit_LeaksOnReturnNone(path, s) == IF path = "non200_return" THEN s ELSE s + 1

\* Leaving `async with self.semaphore` on the path taken: the return of the
\* content, the return of None after the last non-200 answer, the continue
\* after a non-200 answer, an exception
semaphore_exit(path, s) == s + 1

SuccessResult_RejectsEmptyBody(o) == IF o = "ok" THEN "content" ELSE "None"

\* What a status-200 attempt returns: response.text() as it is (the dict
\* around it in scrape_page), the empty text too
SuccessResult(o) == IF o = "ok" THEN "content" ELSE "empty"

FailureResult_Raises(last) == IF last = "exception" THEN "raised" ELSE "None"

\* `return None` after the last failed attempt
FailureResult(last) == "None"

\* The error that a returned value carries: the text, the dict with 'url' and
\* 'content', and None carry none
ErrorIn(result) == "nothing"

close_session_KeepsSession(s) == s

\* close_session: self.session = None
close_session(s) == NoSession

\* A call at the top of its loop, before the first attempt.  `on` is the
\* session its attempt runs on, `failed_on` the session on which its previous
\* attempt raised, `made` the sessions it created in the attempt, `logged` the
\* error of its last logger.warning or logger.error
NewCall == [pc |-> "loop", attempt |-> 0, tries |-> 0, waits |-> <<>>,
            last |-> "none", result |-> "pending",
            on |-> NoSession, failed_on |-> NoSession, made |-> 0, logged |-> "none"]

WebInit ==
    /\ PipeIdle
    /\ DiscIdle
    /\ ProxyIdle
    /\ FnIdle
    /\ client \in Clients
    /\ max_concurrent \in (IF client = "WebScraper" THEN GateSizes ELSE {DefaultMaxConcurrent})
    /\ retry_count \in (IF client = "WebScraper" THEN 0..DefaultRetryCount ELSE {MakeRequestAttempts})
    /\ semaphore = max_concurrent
    /\ calls = [c \in 1..(IF client = "WebScraper" THEN NCalls ELSE BaseCalls) |-> NewCall]
    /\ session = NoSession
    /\ created = 0
    /\ closed = {}
    /\ proxies = 0

\* _make_request has no caller in the repository: the calls on the scraper
\* are made one after the other, a call starts when no other call is running
OtherRunning(c) ==
    \E d \in DOMAIN calls \ {c} : calls[d].pc \notin {"returned"} /\ calls[d].tries > 0

\* WebScraper.scrape_page: the call enters `async with self.semaphore` for
\* its next attempt and starts the fetch
Acquire(c) ==
    /\ client = "WebScraper"
    /\ calls[c].pc = "loop"
    /\ calls[c].attempt < retry_count
    /\ semaphore > 0
    /\ semaphore' = semaphore - 1
    /\ calls' = [calls EXCEPT ![c].pc = "fetch", ![c].tries = @ + 1]
    /\ UNCHANGED <<pvars, dvars, xvars, fvars, svars, client, max_concurrent, retry_count>>

\* BaseScraper._make_request: the call starts its next attempt; init_session
\* when there is no session: a proxy is asked for, then the session is created
Request(c) ==
    /\ client = "BaseScraper"
    /\ calls[c].pc = "loop"
    /\ calls[c].attempt < retry_count
    /\ ~OtherRunning(c)
    /\ LET init == session = NoSession
           s == IF init THEN created + 1 ELSE session
       IN  /\ session' = s
           /\ created' = IF init THEN created + 1 ELSE created
           /\ proxies' = IF init THEN proxies + 1 ELSE proxies
           /\ calls' = [calls EXCEPT ![c].pc = "fetch", ![c].tries = @ + 1,
                                     ![c].on = s,
                                     ![c].made = IF init THEN 1 ELSE 0]
    /\ UNCHANGED <<pvars, dvars, xvars, fvars, client, max_concurrent, retry_count, semaphore, closed>>

\* The range of the for loop is used up (retry_count = 0): return None
LoopEnds(c) ==
    /\ client \in Clients
    /\ calls[c].pc = "loop"
    /\ calls[c].attempt >= retry_count
    /\ calls' = [calls EXCEPT ![c].pc = "returned", ![c].result = FailureResult(calls[c].last)]
    /\ UNCHANGED <<pvars, dvars, xvars, fvars, svars, client, max_concurrent, retry_count, semaphore>>

\* WebScraper.scrape_page: the fetch of the attempt ends.  A non-200 answer
\* is handled inside the semaphore block (the backoff sleep too), an
\* exception outside of it.
WebFetchEnds(c) ==
    /\ client = "WebScraper"
    /\ calls[c].pc = "fetch"
    /\ \E o \in AttemptOutcomes :
         LET a == calls[c].attempt
             again == RetryLeft(a, retry_count)
         IN  CASE o \in {"ok", "empty"} ->
                    /\ semaphore' = semaphore_exit("return", semaphore)
                    /\ calls' = [calls EXCEPT ![c].pc = "returned", ![c].last = o,
                                              ![c].result = SuccessResult(o)]
               [] o = "non200" /\ again ->
                    /\ calls' = [calls EXCEPT ![c].pc = "sleep_in", ![c].last = o,
                                              ![c].logged = o,
                                              ![c].waits = Append(@, Backoff(a))]
                    /\ UNCHANGED semaphore
               [] o = "non200" /\ ~again ->
                    /\ semaphore' = semaphore_exit("non200_return", semaphore)
                    /\ calls' = [calls EXCEPT ![c].pc = "returned", ![c].last = o,
                                              ![c].logged = o,
                                              ![c].result = FailureResult(o)]
               [] o = "exception" /\ again ->
                    /\ semaphore' = semaphore_exit("exception", semaphore)
                    /\ calls' = [calls EXCEPT ![c].pc = "sleep_out", ![c].last = o,
                                              ![c].logged = o,
                                              ![c].waits = Append(@, Backoff(a))]
               [] o = "exception" /\ ~again ->
                    /\ semaphore' = semaphore_exit("exception", semaphore)
                    /\ calls' = [calls EXCEPT ![c].pc = "returned", ![c].last = o,
                                              ![c].logged = o,
                                              ![c].result = FailureResult(o)]
    /\ UNCHANGED <<pvars, dvars, xvars, fvars, svars, client, max_concurrent, retry_count>>

\* BaseScraper._make_request: the request of the attempt ends.  After an
\* exception close_session runs: a session that is set is closed and dropped.
BaseFetchEnds(c) ==
    /\ client = "BaseScraper"
    /\ calls[c].pc = "fetch"
    /\ \E o \in AttemptOutcomes :
         LET a == calls[c].attempt
             again == RetryLeft(a, MakeRequestAttempts)
         IN  /\ CASE o \in {"ok", "empty"} ->
                    calls' = [calls EXCEPT ![c].pc = "returned", ![c].last = o,
                                           ![c].result = SuccessResult(o)]
               [] o \in {"non200", "exception"} /\ again ->
                    calls' = [calls EXCEPT ![c].pc = "sleep_out", ![c].last = o,
                                           ![c].logged = o,
                                           ![c].failed_on = IF o = "exception" THEN calls[c].on
                                                            ELSE NoSession,
                                           ![c].waits = Append(@, Backoff(a))]
               [] o \in {"non200", "exception"} /\ ~again ->
                    calls' = [calls EXCEPT ![c].pc = "returned", ![c].last = o,
                                           ![c].logged = o,
                                           ![c].failed_on = IF o = "exception" THEN calls[c].on
                                                            ELSE NoSession,
                                           ![c].result = FailureResult(o)]
             /\ IF o = "exception" /\ session # NoSession
                THEN /\ closed' = closed \cup {session}
                     /\ session' = close_session(session)
                ELSE UNCHANGED <<session, closed>>
    /\ UNCHANGED <<pvars, dvars, xvars, fvars, client, max_concurrent, retry_count, semaphore,
                   created, proxies>>

\* The backoff sleep ends; `continue` leaves the semaphore block when the
\* sleep was inside it
Wake(c) ==
    /\ client \in Clients
    /\ calls[c].pc \in {"sleep_in", "sleep_out"}
    /\ semaphore' = IF calls[c].pc = "sleep_in"
                    THEN semaphore_exit("non200_continue", semaphore)
                    ELSE semaphore
    /\ calls' = [calls EXCEPT ![c].pc = "loop", ![c].attempt = @ + 1]
    /\ UNCHANGED <<pvars, dvars, xvars, fvars, svars, client, max_concurrent, retry_count>>

WebNext ==
    \/ \E c \in DOMAIN calls : Acquire(c)
    \/ \E c \in DOMAIN calls : Request(c)
    \/ \E c \in DOMAIN calls : LoopEnds(c)
    \/ \E c \in DOMAIN calls : WebFetchEnds(c)
    \/ \E c \in DOMAIN calls : BaseFetchEnds(c)
    \/ \E c \in DOMAIN calls : Wake(c)

WebSpec == WebInit /\ [][WebNext]_vars

----------------------------------------------------------------------------
(* The proxy provider: get_proxy and the setters called on one ProxyConfig   *)

\* self.request_interval = 60
request_interval == 60

\* Most lines of an upstream answer
MaxLines == 2

\* The clock is followed for this many request intervals
MaxClock == 3

\* api_params["appKey"], api_params["appSecret"]
appKey == "1208088376956571648"
appSecret == "RGxk8zzg"

\* A falsy proxy text: None, ''
NoProxy == <<>>

\* What get_proxy returns when it returns None
PxNone == [none |-> TRUE]

\* Lines of an upstream answer, as their characters: an entry, an entry with
\* white space around it, a message without ':', a blank line; the empty line
P_A == <<"1.1.1.1", ":", "80">>
P_B == <<" ", "2.2.2.2", ":", "81", " ">>
P_MSG == <<"limit", " ", "exceeded">>
P_BLANK == <<" ">>
P_EMPTY == <<>>
ProxyLines == {P_A, P_B, P_MSG, P_BLANK}

\* What requests.get can end in: an answer with a status and a text, an
\* exception (connection error, timeout)
Responses ==
    {[kind |-> "answer", status |-> 200, body |-> b] : b \in SeqsUpTo(ProxyLines, MaxLines)}
    \cup {[kind |-> "answer", status |-> 503, body |-> <<>>], [kind |-> "exception"]}

NoResponse == [kind |-> "none"]

\* A value a caller hands to set_default_proxy or add_proxy
StaticProxies == {<<"http://", "static", ":", "8080">>, NoProxy}

RECURSIVE lstrip(_)
lstrip(t) == IF t # <<>> /\ Head(t) = " " THEN lstrip(Tail(t)) ELSE t

RECURSIVE rstrip(_)
rstrip(t) == IF t # <<>> /\ t[Len(t)] = " " THEN rstrip(SubSeq(t, 1, Len(t) - 1)) ELSE t

\* str.strip
strip_text(t) == rstrip(lstrip(t))

\* response.text.strip().split('\n'): the lines of the text, one empty line
\* for an empty text
split_lines(body) == IF body = <<>> THEN <<P_EMPTY>> ELSE body

ValidEntry_NotBlank(t) == t # <<>>

\* if proxy_text and ':' in proxy_text
ValidEntry(t) == t # <<>> /\ \E i \in 1..Len(t) : t[i] = ":"

\* f"http://{appKey}:{appSecret}@{proxy_text}"
credential(t) == <<"http://", appKey, ":", appSecret, "@">> \o t

\* The pool built from an answer of status 200
pool_of(body) ==
    LET L == split_lines(body)
        texts == [i \in 1..Len(L) |-> strip_text(L[i])]
        kept == SelectSeq(texts, ValidEntry)
    IN  [i \in 1..Len(kept) |-> credential(kept[i])]

\* current_time - self.last_request_time < self.request_interval
TooSoon(t, last) == t - last < request_interval

FetchFailed_Raises(pool, last) ==
    [pool |-> pool, last |-> last, ret |-> NoProxy, sent |-> 1, raised |-> TRUE]

\* The request raised or was answered with another status than 200: the
\* error is logged, None is returned
FetchFailed(pool, last) ==
    [pool |-> pool, last |-> last, ret |-> NoProxy, sent |-> 1, raised |-> FALSE]

\* _fetch_new_proxy: what a call can end in, for the answer `resp` the
\* upstream service gives when it is asked: the pool and the timestamp it
\* leaves, the text it returns, the requests it sent, whether it raised.
\* random.choice can return any member.
fetch_new_proxy(en, pool, last, t, resp) ==
    IF ~en
    THEN {[pool |-> pool, last |-> last, ret |-> NoProxy, sent |-> 0, raised |-> FALSE]}
    ELSE IF TooSoon(t, last)
    THEN IF pool # <<>>
         THEN {[pool |-> pool, last |-> last, ret |-> pool[i], sent |-> 0, raised |-> FALSE]
                 : i \in 1..Len(pool)}
         ELSE {[pool |-> pool, last |-> last, ret |-> NoProxy, sent |-> 0, raised |-> FALSE]}
    ELSE IF resp.kind = "exception"
    THEN {FetchFailed(pool, last)}
    ELSE IF resp.status = 200
    THEN LET new == pool_of(resp.body)
         IN  IF new # <<>>
             THEN {[pool |-> new, last |-> t, ret |-> new[i], sent |-> 1, raised |-> FALSE]
                     : i \in 1..Len(new)}
             ELSE {[pool |-> new, last |-> last, ret |-> NoProxy, sent |-> 1, raised |-> FALSE]}
    ELSE {FetchFailed(pool, last)}

Disabled_Never(en) == FALSE

\* if not self.enabled
Disabled(en) == ~en

UsePool_Never(pool) == FALSE

\* if self.proxy_pool
UsePool(pool) == pool # <<>>

\* get_proxy: what a call can end in
get_proxy(en, pool, last, dflt, t, resp) ==
    IF Disabled(en)
    THEN {[pool |-> pool, last |-> last, ret |-> PxNone, sent |-> 0]}
    ELSE IF UsePool(pool)
    THEN {[pool |-> pool, last |-> last, ret |-> [http |-> pool[i]], sent |-> 0]
            : i \in 1..Len(pool)}
    ELSE {[pool |-> f.pool, last |-> f.last, sent |-> f.sent,
           ret |-> IF f.raised THEN [raised |-> TRUE]
                   ELSE IF f.ret # NoProxy THEN [http |-> f.ret]
                   ELSE IF dflt # NoProxy THEN [http |-> dflt]
                   ELSE PxNone]
            : f \in fetch_new_proxy(en, pool, last, t, resp)}

\* No upstream request was sent yet
NoTime == -1

NewProvider ==
    [op |-> "none", n |-> 0, ret |-> PxNone, sent |-> 0, resp |-> NoResponse,
     last_sent |-> NoTime]

\* ProxyConfig() as __init__ leaves it.  The clock reads request_interval or
\* more: every such reading is that far from the initial timestamp 0.
ProxyInit ==
    /\ PipeIdle
    /\ DiscIdle
    /\ max_concurrent = DefaultMaxConcurrent
    /\ WebIdle
    /\ FnIdle
    /\ enabled = TRUE
    /\ proxy_pool = <<>>
    /\ last_request_time = 0
    /\ default_proxy = NoProxy
    /\ now = request_interval
    /\ px = NewProvider

\* The upstream service answers when it is asked
Unasked == [kind |-> "exception"]
AnswersTo(en, pool, last, dflt, t) ==
    IF \E o \in get_proxy(en, pool, last, dflt, t, Unasked) : o.sent = 1
    THEN Responses
    ELSE {Unasked}

\* A call of get_proxy at the time `now`
GetProxy ==
    /\ px # NoCall
    /\ \E resp \in AnswersTo(enabled, proxy_pool, last_request_time, default_proxy, now) :
         \E o \in get_proxy(enabled, proxy_pool, last_request_time, default_proxy, now, resp) :
            /\ proxy_pool' = o.pool
            /\ last_request_time' = o.last
            /\ px' = [op |-> "get_proxy", n |-> 1 - px.n, ret |-> o.ret, sent |-> o.sent,
                      resp |-> IF o.sent = 1 THEN resp ELSE NoResponse,
                      last_sent |-> IF o.sent = 1 THEN now ELSE px.last_sent]
    /\ UNCHANGED <<pvars, dvars, wvars, fvars, enabled, default_proxy, now>>

AddProxy ==
    /\ px # NoCall
    /\ \E p \in StaticProxies : default_proxy' = p
    /\ UNCHANGED <<pvars, dvars, wvars, fvars, enabled, proxy_pool, last_request_time, now, px>>

SetDefaultProxy ==
    /\ px # NoCall
    /\ \E p \in StaticProxies : default_proxy' = p
    /\ UNCHANGED <<pvars, dvars, wvars, fvars, enabled, proxy_pool, last_request_time, now, px>>

Enable ==
    /\ px # NoCall
    /\ enabled' = TRUE
    /\ UNCHANGED <<pvars, dvars, wvars, fvars, proxy_pool, last_request_time, default_proxy, now, px>>

Disable ==
    /\ px # NoCall
    /\ enabled' = FALSE
    /\ UNCHANGED <<pvars, dvars, wvars, fvars, proxy_pool, last_request_time, default_proxy, now, px>>

\* Time passes between two calls: half an interval, a whole one
Tick ==
    /\ px # NoCall
    /\ \E d \in {request_interval \div 2, request_interval} :
         /\ now + d <= request_interval * MaxClock
         /\ now' = now + d
    /\ UNCHANGED <<pvars, dvars, wvars, fvars, enabled, proxy_pool, last_request_time,
                   default_proxy, px>>

ProxyNext ==
    \/ GetProxy
    \/ AddProxy
    \/ SetDefaultProxy
    \/ Enable
    \/ Disable
    \/ Tick

ProxySpec == ProxyInit /\ [][ProxyNext]_vars

----------------------------------------------------------------------------
(* An extraction or store function called on its own, over any input *)

\* select_one found no element: None
NoElem == [found |-> FALSE]

\* An element that a selector found: its text and the text of its parent
Elem(text, parent) == [found |-> TRUE, text |-> text, parent |-> parent]

\* What the three selectors of a field can find in a job div: nothing, an
\* element with blank text, an element with a text of its own
RuleOutcomes ==
    {<<r1, r2, r3>> : r1 \in {NoElem, Elem(" ", "P1"), Elem("A", "PA")},
                      r2 \in {NoElem, Elem(" ", "P2"), Elem("B", "PB")},
                      r3 \in {NoElem, Elem(" ", "P3"), Elem("C", "PC")}}

NoMatches == <<NoElem, NoElem, NoElem>>

\* The job divs parse_yuanjisong is given: one div, every way its title and
\* price selectors can match, two ways for description and duration
JobDivs ==
    {[title |-> t, description |-> d, price |-> p, duration |-> u] :
        t \in RuleOutcomes, p \in RuleOutcomes,
        d \in {NoMatches, <<Elem(" ", "P1"), Elem("B", "PB"), NoElem>>},
        u \in {NoMatches, <<NoElem, Elem(" ", "P2"), Elem("C", "PC")>>}}

\* div.select_one(a) or div.select_one(b) or div.select_one(c): a Tag is
\* truthy whatever its text, None is falsy
select_first(rules) ==
    IF rules[1].found THEN rules[1]
    ELSE IF rules[2].found THEN rules[2]
    ELSE rules[3]

\* The body of the loop of parse_yuanjisong for one div: the jobs it appends
parse_job_div(div) ==
    LET title == select_first(div.title)
        description == select_first(div.description)
        price == select_first(div.price)
        duration == select_first(div.duration)
    IN  IF title.found
        THEN <<[title |-> Strip(title.text),
                description |-> IF description.found THEN Strip(description.text) ELSE None,
                price |-> IF price.found THEN Strip(price.text) ELSE None,
                duration |-> IF duration.found THEN Strip(duration.parent) ELSE None]>>
        ELSE <<>>

\* WebScraper.parse_yuanjisong over the job divs of the content
parse_yuanjisong(content) == Flatten([i \in 1..Len(content) |-> parse_job_div(content[i])])

\* The detail pages extract_project_details is given: every combination of
\* what the selectors and patterns find
Y_AnyDetailPages ==
    {[h2 |-> h, salary |-> sal, desc |-> d] :
        h \in {Absent, "T", " "}, sal \in {Absent, "300/day", "negotiable"},
        d \in {Absent, "D", " "}}

S_AnyDetailPages ==
    {[title |-> t, duration |-> d] : t \in {Absent, "T", " "}, d \in {Absent, "45d"}}

\* The records save_results is given and the file it finds
StoredRecords == {[title |-> "A"], [title |-> "B"]}
StoreInputs ==
    {[file |-> f, results |-> r] :
        f \in {NoFile, [valid |-> TRUE, data |-> <<[title |-> "Z"]>>]},
        r \in {<<>>} \cup {<<a>> : a \in StoredRecords}
                 \cup {<<a, b>> : a \in StoredRecords, b \in StoredRecords}}

Functions ==
    {"YuanjisongScraper.extract_project_details", "SxsapiScraper.extract_project_details",
     "WebScraper.parse_yuanjisong", "BaseScraper.save_results"}

InputsOf(f) ==
    CASE f = "YuanjisongScraper.extract_project_details" -> Y_AnyDetailPages
      [] f = "SxsapiScraper.extract_project_details" -> S_AnyDetailPages
      [] f = "WebScraper.parse_yuanjisong" -> {<<d>> : d \in JobDivs}
      [] f = "BaseScraper.save_results" -> StoreInputs

FnInit ==
    /\ PipeIdle
    /\ DiscIdle
    /\ max_concurrent = DefaultMaxConcurrent
    /\ WebIdle
    /\ ProxyIdle
    /\ call_fn \in Functions
    /\ call_arg \in InputsOf(call_fn)
    /\ call_out = NoResult

\* extract_project_details of either scraper returns
ExtractDetails ==
    /\ call_fn \in {"YuanjisongScraper.extract_project_details",
                    "SxsapiScraper.extract_project_details"}
    /\ call_out = NoResult
    /\ call_out' = [value |-> IF call_fn = "YuanjisongScraper.extract_project_details"
                              THEN Y_extract_project_details(call_arg)
                              ELSE S_extract_project_details(call_arg)]
    /\ UNCHANGED <<pvars, dvars, wvars, xvars, call_fn, call_arg>>

\* parse_yuanjisong returns
ParseYuanjisong ==
    /\ call_fn = "WebScraper.parse_yuanjisong"
    /\ call_out = NoResult
    /\ call_out' = [value |-> parse_yuanjisong(call_arg)]
    /\ UNCHANGED <<pvars, dvars, wvars, xvars, call_fn, call_arg>>

\* save_results is called with the same list, a first and a second time;
\* `once` is the file as the first call left it
SaveResults ==
    /\ call_fn = "BaseScraper.save_results"
    /\ \E w \in WriteOutcomes :
         \/ /\ call_out = NoResult
            /\ LET f == save_results(call_arg.file, call_arg.results, w)
               IN  call_out' = [file |-> f, once |-> f, writes |-> <<w>>]
         \/ /\ call_out # NoResult
            /\ Len(call_out.writes) = 1
            /\ call_out' = [file |-> save_results(call_out.file, call_arg.results, w),
                            once |-> call_out.once,
                            writes |-> Append(call_out.writes, w)]
    /\ UNCHANGED <<pvars, dvars, wvars, xvars, call_fn, call_arg>>

FnNext ==
    \/ ExtractDetails
    \/ ParseYuanjisong
    \/ SaveResults

FnSpec == FnInit /\ [][FnNext]_vars

----------------------------------------------------------------------------
(* Properties *)

\* The listings of the pages handed to scrape so far, in page order
PagesUpTo(n) == Flatten([i \in 1..n |-> pageRet[i].projects])

OneTo(n) == [i \in 1..n |-> i]

\* C1: right after the save_results call that ends scrape_page for page n
\* (and whose write succeeded), the output file holds the listings of pages
\* 1..n in page order, not only those of page n.
C1_FileHoldsAllPagesAfterPersist ==
    (pc = "Returned" /\ saved = "ok")
        => (out_file.valid /\ out_file.data = all_jobs \o ret.projects)

\* C2: every candidate that discovery returned for a page is an element of
\* the list scrape_page returns for that page, whatever its detail fetch and
\* its field extraction gave.
C2_EveryCandidateInPageResult ==
    (pc = "Returned" /\ ~ret.raised)
        => \A i \in 1..Len(cands) : \E j \in 1..Len(detailed) : detailed[j] = i

\* C3: if page k is the first page whose cycle yields zero listings, scrape
\* requests exactly pages 1..k, never page k+1, and returns exactly the
\* listings of pages 1..k-1.
C3_StopsAtFirstEmptyPage ==
    \A k \in 1..Len(pageRet) :
        (~pageRet[k].raised /\ pageRet[k].projects = <<>>)
            => /\ k = Len(pageRet)
               /\ requested = OneTo(k)
               /\ pc \in {"FinalSave", "Stopped"}
               /\ all_jobs = PagesUpTo(k - 1)

C3_Witness ==
    /\ pc = "Stopped"
    /\ stopReason = "empty"
    /\ requested = <<1, 2>>
    /\ max_pages # 1
    /\ all_jobs # <<>>

\* C4: a listing that a page's persist wrote to the output file stays in the
\* file through every later successful write of the same run.
C4_WrittenListingsStay ==
    [][(out_file.valid /\ out_file'.valid)
          => \A i \in 1..Len(out_file.data) :
                \E j \in 1..Len(out_file'.data) : out_file'.data[j] = out_file.data[i]]_vars

\* C5: if the page cycle of page n raises inside scrape, the exception is not
\* propagated: pagination stops, no further page is requested, and the
\* listings of pages 1..n-1 are what the final save writes and what scrape
\* returns.
C5_ExceptionStopsCleanly ==
    \A n \in 1..Len(pageRet) :
        pageRet[n].raised
            => /\ n = Len(pageRet)
               /\ requested = OneTo(n)
               /\ pc \in {"FinalSave", "Stopped"}
               /\ stopReason = "exception"
               /\ all_jobs = PagesUpTo(n - 1)
               /\ (pc = "Stopped" /\ saved = "ok")
                     => out_file = [valid |-> TRUE, data |-> PagesUpTo(n - 1)]

C5_Witness ==
    /\ pc = "Stopped"
    /\ stopReason = "exception"
    /\ requested = <<1, 2>>
    /\ all_jobs # <<>>
    /\ saved = "ok"

\* C6 as claimed: every call of scrape reaches Stopped, for every
\* max_pages >= 0.
C6_AlwaysTerminates == <>(pc = "Stopped")

\* C6 as amended: every call of scrape with max_pages >= 1 reaches Stopped.
C6_TerminatesWhenCapped == (max_pages >= 1) ~> (pc = "Stopped")

C6_Witness ==
    /\ pc = "Stopped"
    /\ max_pages = 2
    /\ stopReason = "cap"
    /\ requested = <<1, 2>>

\* C7: the listing pages are requested in the order 1, 2, 3, ... from page 1,
\* none skipped, none twice, and with max_pages >= 1 none beyond max_pages.
C7_PagesInOrderWithinCap ==
    /\ requested = OneTo(Len(requested))
    /\ max_pages >= 1 => Len(requested) <= max_pages

C7_Witness ==
    /\ max_pages = 2
    /\ requested = <<1, 2>>
    /\ stopReason = "cap"

\* C8: the list scrape returns is the concatenation, in page order, of the
\* result lists of the pages processed, nothing dropped, reordered or
\* deduplicated.
C8_ResultIsConcatenation ==
    all_jobs = PagesUpTo(Len(pageRet))

C8_Witness ==
    /\ pc = "Stopped"
    /\ Len(pageRet) = 2
    /\ pageRet[1].projects # <<>>
    /\ pageRet[2].projects # <<>>
    /\ pageRet[1].projects[1]["url"] = pageRet[2].projects[1]["url"]
    /\ Len(all_jobs) = Len(pageRet[1].projects) + Len(pageRet[2].projects)

\* C9: when the detail fetch of a candidate fails, times out, raises or
\* returns empty markup, the record enrichment yields for it (the project of
\* the task that ended; in sxsapi also the record appended to the page
\* result) equals the candidate as discovered.
C9_FailedEnrichmentKeepsCandidate ==
    [][\A i \in DOMAIN tasks :
          (/\ pc = "Enriching"
           /\ tasks[i] = "pending"
           /\ i \in DOMAIN tasks'
           /\ tasks'[i] = "done"
           /\ ev' = "failed")
              => /\ projects'[i] = cands[i]
                 /\ platform = "sxsapi" => detailed' = Append(detailed, i)]_vars

C9_Witness ==
    /\ pc = "Enriching"
    /\ ev = "failed"
    /\ \E i \in DOMAIN tasks : tasks[i] = "done" /\ projects[i] = cands[i]
    /\ \E i \in DOMAIN tasks : tasks[i] = "done" /\ projects[i] # cands[i]

\* C10: every listing of the list scrape returns has a non-empty title and a
\* non-empty url.
C10_TitleAndUrlNonEmpty ==
    pc = "Stopped"
        => \A i \in 1..Len(all_jobs) :
              /\ TruthyStr(Get(all_jobs[i], "title"))
              /\ TruthyStr(Get(all_jobs[i], "url"))

\* The detail fetches of the current page that are in flight (yuanjisong
\* starts every task of the page at once)
InFlight == {i \in DOMAIN tasks : pc = "Enriching" /\ tasks[i] = "pending"}

IsReturned(i) == \E j \in 1..Len(detailed) : detailed[j] = i

\* C11: for every candidate and every outcome of its detail fetch and
\* extraction, the keys of the record enrichment yields (the project of the
\* task, and the record of the page result) include the keys of the candidate.
C11_EnrichmentKeepsCandidateKeys ==
    /\ \A i \in DOMAIN projects : DOMAIN cands[i] \subseteq DOMAIN projects[i]
    /\ pc = "Returned"
          => \A j \in 1..Len(ret.projects) :
                DOMAIN cands[detailed[j]] \subseteq DOMAIN ret.projects[j]

C11_Witness ==
    /\ pc = "Returned"
    /\ \E j \in 1..Len(ret.projects) :
          /\ "price" \in DOMAIN cands[detailed[j]]
          /\ "price" \in DOMAIN ret.projects[j]
          /\ "description" \in DOMAIN ret.projects[j]

\* C12: when the detail fetch of a candidate succeeds, the enriched record
\* has the keys of the candidate and of the detail record, the detail value
\* for every key of the detail record and the candidate's value for every
\* key the candidate alone has.
C12_SuccessfulEnrichmentOverrides ==
    [][\A i \in DOMAIN tasks :
          (/\ pc = "Enriching"
           /\ tasks[i] = "pending"
           /\ i \in DOMAIN tasks'
           /\ tasks'[i] = "done"
           /\ ev' = "fetched")
              => /\ DOMAIN projects'[i] = (DOMAIN cands[i]) \cup (DOMAIN last_details')
                 /\ \A k \in DOMAIN last_details' : projects'[i][k] = last_details'[k]
                 /\ \A k \in (DOMAIN cands[i]) \ (DOMAIN last_details') :
                       projects'[i][k] = cands[i][k]]_vars

C12_Witness ==
    /\ pc = "Enriching"
    /\ ev = "fetched"
    /\ \E i \in DOMAIN tasks :
          /\ tasks[i] = "done"
          /\ "title" \in DOMAIN last_details
          /\ projects[i]["title"] = last_details["title"]
          /\ projects[i]["title"] # cands[i]["title"]
          /\ "price" \in DOMAIN projects[i]
          /\ "price" \notin DOMAIN last_details

\* C14: when the aggregate deadline of the fan-out expires in
\* YuanjisongScraper.scrape_page, every candidate whose task had not
\* completed is in the page result, as discovered.
C14_TimeoutKeepsUnfinishedCandidates ==
    (pc = "Returned" /\ platform = "yuanjisong" /\ ~ret.raised)
        => \A i \in DOMAIN tasks :
              tasks[i] = "cancelled" => (IsReturned(i) /\ projects[i] = cands[i])

\* C15: the result list of a page of yuanjisong has the urls of the page's
\* discovery output, in the same order, each candidate once, with or without
\* the aggregate deadline expiring.
C15_ResultUrlsAreDiscoveryUrls ==
    (pc = "Returned" /\ platform = "yuanjisong" /\ cands # <<>>)
        => /\ Len(ret.projects) = Len(cands)
           /\ \A i \in 1..Len(cands) : ret.projects[i]["url"] = cands[i]["url"]

\* C16: the end of the enrichment of one candidate, whatever its outcome,
\* leaves the project and the task of every sibling as they were, the page
\* cycle does not raise because of it, and a sibling whose own detail fetch
\* succeeded in time is in the page result, enriched.
C16_SiblingsAreIsolated ==
    /\ (pc = "Returned" /\ cands # <<>>)
          => /\ ~ret.raised
             /\ \A i \in DOMAIN tasks :
                   (tasks[i] = "done" /\ projects[i] # cands[i])
                      => \E j \in 1..Len(ret.projects) :
                            detailed[j] = i /\ ret.projects[j] = projects[i]
    /\ pc = "Enriching"
          => \A i \in DOMAIN tasks : tasks[i] = "pending" => projects[i] = cands[i]

\* C17: during the fan-out of a page of yuanjisong the number of detail
\* fetches in flight is at most the concurrency bound the admission gate is
\* configured with.
C17_InFlightWithinGate ==
    platform = "yuanjisong" => Cardinality(InFlight) <= max_concurrent

\* C18: the page counter moves on, and the next listing page is requested,
\* only when no enrichment task of the page is running any more (each has
\* finished or been cancelled) and the persist of the page has run.
C18_PagesAreSequential ==
    [][/\ pc = "Returned" => \A i \in DOMAIN tasks : tasks[i] \in {"done", "cancelled"}
       /\ page' # page
             => /\ pc = "Returned"
                /\ saved # "none"
                /\ \A i \in DOMAIN tasks : tasks[i] \in {"done", "cancelled"}
       /\ requested' # requested
             => /\ pc = "FetchingPage"
                /\ tasks = <<>>
                /\ page > 1 => Len(pageRet) = page - 1]_vars

C18_Witness ==
    /\ page = 2
    /\ pc = "Enriching"
    /\ platform = "yuanjisong"
    /\ Len(tasks) = 2
    /\ tasks[1] = "pending"
    /\ tasks[2] = "done"

\* The blocks (yuanjisong) or heading lines (sxsapi) of a listing markup
Scanned(pl, markup) ==
    IF pl = "yuanjisong" THEN Len(markup)
    ELSE Cardinality({i \in DOMAIN markup : markup[i].kind = "heading"})

\* C13: every candidate extract_project_links returns has a non-empty title
\* and a non-empty url, and it returns at most as many candidates as the
\* markup has blocks (yuanjisong) or heading lines (sxsapi).
C13_DiscoveryEmitsTitleAndUrl ==
    disc_out # NoOut
        => /\ \A i \in 1..Len(disc_out) :
                 /\ TruthyStr(Get(disc_out[i], "title"))
                 /\ TruthyStr(Get(disc_out[i], "url"))
           /\ Len(disc_out) <= Scanned(disc_platform, disc_markup)

\* The calls inside the semaphore block
Holding == {c \in DOMAIN calls : calls[c].pc \in {"fetch", "sleep_in"}}

\* C19: the number of scrape_page calls of WebScraper that hold a permit is
\* at most max_concurrent, every permit taken is given back on every way out
\* of the block, and no permit is held once every call has returned.
C19_PermitsBoundedAndReleased ==
    client = "WebScraper"
        => /\ Cardinality(Holding) <= max_concurrent
           /\ semaphore = max_concurrent - Cardinality(Holding)
           /\ (\A c \in DOMAIN calls : calls[c].pc = "returned")
                 => semaphore = max_concurrent

C19_Witness ==
    /\ client = "WebScraper"
    /\ max_concurrent < NCalls
    /\ semaphore = max_concurrent
    /\ \A c \in DOMAIN calls : calls[c].pc = "returned"
    /\ \E c \in DOMAIN calls : calls[c].last = "non200"
    /\ \E c \in DOMAIN calls : calls[c].last = "exception"

\* C20: a call of _make_request (cap 3) or of scrape_page (cap retry_count)
\* makes at most cap attempts and none after a successful one, waits
\* 2 x k seconds after its k-th failed attempt before attempt k + 1, and
\* does not wait after its last attempt.
C20_BoundedAttemptsWithBackoff ==
    /\ [](\A c \in DOMAIN calls :
            LET k == calls[c]
                cap == IF client = "BaseScraper" THEN 3 ELSE retry_count
            IN  /\ k.tries <= cap
                /\ \A i \in 1..Len(k.waits) : k.waits[i] = 2 * i
                /\ k.pc = "loop" => Len(k.waits) = k.tries
                /\ k.pc = "fetch" => Len(k.waits) = k.tries - 1
                /\ k.pc \in {"sleep_in", "sleep_out"}
                      => (Len(k.waits) = k.tries /\ k.tries < cap)
                /\ (k.pc = "returned" /\ cap > 0) => Len(k.waits) = k.tries - 1
                /\ k.result = "None" => k.tries = cap
                /\ k.result = "content" => k.last = "ok")
    /\ [][\A c \in DOMAIN calls :
            (calls[c].last = "ok" /\ c \in DOMAIN calls') => calls'[c] = calls[c]]_vars

C20_Witness ==
    /\ \E c \in DOMAIN calls :
          /\ calls[c].pc = "returned"
          /\ calls[c].result = "None"
          /\ calls[c].waits = <<2, 4>>
          /\ calls[c].tries = 3
    /\ \E c \in DOMAIN calls :
          /\ calls[c].pc = "returned"
          /\ calls[c].result = "content"
          /\ calls[c].waits = <<2>>
          /\ calls[c].tries = 2

\* The attempts a call may make
Cap == IF client = "WebScraper" THEN retry_count ELSE MakeRequestAttempts

\* C21: an attempt that ends in a status other than 200 and an attempt that
\* ends in status 200 with an empty body are failed attempts: a call returns
\* after one of them only when no attempt remains, and then it returns the
\* failure value, never the response.
C21_EmptyAndNon200AreFailedAttempts ==
    \A c \in DOMAIN calls :
        (calls[c].pc = "returned" /\ calls[c].last \in {"non200", "empty"})
            => /\ calls[c].tries = Cap
               /\ calls[c].result = "None"

\* C22 as stated: the value returned after the last failed attempt carries
\* the error of that attempt.
C22_FailureValueCarriesLastError ==
    \A c \in DOMAIN calls :
        (calls[c].pc = "returned" /\ calls[c].last \in {"non200", "exception"})
            => /\ calls[c].result # "raised"
               /\ ErrorIn(calls[c].result) = calls[c].last

\* C22: when every attempt of a call has failed with another status or an
\* exception, the call raises nothing and returns None; None carries no
\* error, the error of the last attempt is the one logged last.
C22_ExhaustedCallReturnsNoneAndLogs ==
    \A c \in DOMAIN calls :
        (calls[c].pc = "returned" /\ calls[c].last \in {"non200", "exception"})
            => /\ calls[c].tries = Cap
               /\ calls[c].result = "None"
               /\ ErrorIn(calls[c].result) = "nothing"
               /\ calls[c].logged = calls[c].last

C22_Witness ==
    \E c \in DOMAIN calls :
        /\ calls[c].pc = "returned"
        /\ calls[c].last = "exception"
        /\ calls[c].tries = 3
        /\ calls[c].result = "None"

\* C23: in _make_request, when an attempt before the third raises, the
\* session it ran on is closed before the next attempt starts, and the next
\* attempt runs on a session that the call creates in that attempt, after
\* asking for a proxy, never on the session that failed; an attempt creates
\* at most one session, and every session creation asks for a proxy.
C23_NewSessionAfterException ==
    /\ [](\A c \in DOMAIN calls :
            /\ calls[c].made <= 1
            /\ proxies = created
            /\ (calls[c].pc \in {"sleep_out", "loop"} /\ calls[c].last = "exception")
                  => (session = NoSession
                      /\ (calls[c].failed_on # NoSession => calls[c].failed_on \in closed)))
    /\ [][\A c \in DOMAIN calls :
            (client = "BaseScraper" /\ calls[c].pc = "loop" /\ calls'[c].pc = "fetch"
               /\ calls[c].last = "exception")
              => /\ calls'[c].on # calls[c].failed_on
                 /\ calls[c].failed_on \in closed
                 /\ calls'[c].on \notin closed
                 /\ created' = created + 1
                 /\ proxies' = proxies + 1
                 /\ calls'[c].on = created'
                 /\ calls'[c].made = 1]_vars

C23_Witness ==
    \E c \in DOMAIN calls :
        /\ client = "BaseScraper"
        /\ calls[c].pc = "fetch"
        /\ calls[c].attempt = 2
        /\ calls[c].last = "exception"
        /\ calls[c].on = 3
        /\ calls[c].failed_on = 2
        /\ closed = {1, 2}


\* A step that is a call of get_proxy
GetProxyCalled == px'.n # px.n

\* The pool members, as get_proxy returns them
Offers(pool) == {[http |-> pool[i]] : i \in 1..Len(pool)}

\* An upstream request was sent before, and less than request_interval ago
SentRecently == px.last_sent # NoTime /\ now - px.last_sent < request_interval

\* A line of an upstream answer that is a host:port entry: not blank, with
\* the ':' between host and port
IsHostPort(line) == \E i \in 1..Len(line) : line[i] = ":"

\* The credentials of the host:port entries of an answer, in their order
CredentialsOf(resp) ==
    LET entries == SelectSeq(resp.body, IsHostPort)
    IN  [i \in 1..Len(entries) |-> credential(strip_text(entries[i]))]

\* C24: an upstream request is sent only when request_interval seconds or
\* more have passed since the upstream request before it, whatever that one
\* ended in.
C24_UpstreamRequestsAreSpaced ==
    [][(GetProxyCalled /\ px'.sent = 1 /\ px.last_sent # NoTime)
          => now - px.last_sent >= request_interval]_vars

\* C25: a get_proxy call on an enabled provider with a non-empty pool returns
\* a member of the pool, sends no upstream request and leaves pool and
\* timestamp as they are; no get_proxy call changes a non-empty pool.
C25_NonEmptyPoolIsServedAndKept ==
    [][(GetProxyCalled /\ proxy_pool # <<>>)
          => /\ proxy_pool' = proxy_pool
             /\ last_request_time' = last_request_time
             /\ px'.sent = 0
             /\ enabled => px'.ret \in Offers(proxy_pool)]_vars

C25_Witness ==
    /\ px.op = "get_proxy"
    /\ enabled
    /\ Len(proxy_pool) = 2
    /\ px.sent = 0
    /\ px.ret = [http |-> proxy_pool[2]]
    /\ now - last_request_time >= request_interval

C27_TooSoonFallsBackWithoutRequest ==
    [][(GetProxyCalled /\ enabled /\ proxy_pool = <<>> /\ SentRecently)
          => /\ px'.sent = 0
             /\ px'.ret = IF default_proxy # NoProxy THEN [http |-> default_proxy]
                          ELSE PxNone]_vars

\* C28: when the upstream request of a get_proxy call raises or is answered
\* with another status than 200 and no static fallback is set, the call
\* raises nothing, returns None and leaves the pool as it was.
C28_FailedRequestReturnsNone ==
    [][(GetProxyCalled /\ px'.sent = 1 /\ default_proxy = NoProxy
          /\ (px'.resp.kind = "exception" \/ px'.resp.status # 200))
          => /\ px'.ret = PxNone
             /\ proxy_pool' = proxy_pool]_vars

C28_Witness ==
    /\ px.op = "get_proxy"
    /\ px.sent = 1
    /\ px.resp.kind = "exception"
    /\ default_proxy = NoProxy
    /\ px.ret = PxNone
    /\ proxy_pool = <<>>

\* C29: while the provider is disabled a get_proxy call returns None, sends
\* no upstream request and leaves pool, fallback and timestamp as they are;
\* enable and disable change none of the three, so that after enable the
\* pool of before is served again.
C29_DisabledProviderReturnsNone ==
    [][/\ (GetProxyCalled /\ ~enabled)
            => /\ px'.ret = PxNone
               /\ px'.sent = 0
               /\ proxy_pool' = proxy_pool
               /\ default_proxy' = default_proxy
               /\ last_request_time' = last_request_time
       /\ enabled' # enabled
            => /\ proxy_pool' = proxy_pool
               /\ default_proxy' = default_proxy
               /\ last_request_time' = last_request_time
       /\ (GetProxyCalled /\ enabled /\ proxy_pool # <<>>)
            => px'.ret \in Offers(proxy_pool)]_vars

C29_Witness ==
    /\ px.op = "get_proxy"
    /\ ~enabled
    /\ proxy_pool # <<>>
    /\ default_proxy # NoProxy
    /\ px.ret = PxNone


\* The outcomes of a write that fail
WriteFailures == WriteOutcomes \ {"ok"}

\* C30: a write that fails during a persist, the save of a page or the final
\* save, is not raised: scrape_page returns the listing of the page, the
\* loop goes on to the next page as after a write that succeeded, and the
\* accumulated list is not changed by the write.
C30_WriteFailureIsSwallowed ==
    /\ []((pc = "Returned" /\ saved \in WriteFailures)
            => /\ ~ret.raised
               /\ ret.projects = Deref(projects, detailed))
    /\ [][/\ (saved' \in WriteFailures /\ pc' \in {"Returned", "Stopped"} /\ pc' # pc)
               => all_jobs' = all_jobs
          /\ (pc = "Returned" /\ saved \in WriteFailures /\ ret.projects # <<>>
                /\ ~CapReached(max_pages, page))
               => /\ pc' = "NextPage"
                  /\ page' = page + 1
                  /\ all_jobs' = all_jobs \o ret.projects]_vars

C30_Witness ==
    /\ pc = "NextPage"
    /\ page = 2
    /\ all_jobs # <<>>
    /\ ~out_file.valid


\* C32: the listing fetch of page n+1 starts only after the inter-page delay
\* that follows page n, the delay is waited once and is followed by that
\* fetch, and after the last page of the run (the cap is reached, the page is
\* empty or raised) the loop goes to the final save without a delay.
C32_OneDelayBetweenPages ==
    [][/\ (pc' = "FetchingPage" /\ pc # "FetchingPage")
            => (pc = "NextPage" /\ page' = page)
       /\ pc = "NextPage" => pc' = "FetchingPage"
       /\ (pc = "Returned" /\ page' # page) => (pc' = "NextPage" /\ page' = page + 1)
       /\ (pc = "Returned"
             /\ (ret.raised \/ ret.projects = <<>> \/ (max_pages # 0 /\ page >= max_pages)))
            => pc' = "FinalSave"
       /\ pc = "FinalSave" => pc' = "Stopped"]_vars

C32_Witness ==
    /\ pc = "Stopped"
    /\ page = 2
    /\ stopReason = "cap"
    /\ Len(pageRet) = 2

\* C38: when the aggregate deadline expires in YuanjisongScraper.scrape_page,
\* no task is left running, and every candidate whose task had completed
\* with its detail fields merged is in the page result in its enriched form.
C38_TimeoutKeepsEnrichedCandidates ==
    (pc = "Returned" /\ platform = "yuanjisong" /\ ~ret.raised
       /\ \E i \in DOMAIN tasks : tasks[i] = "cancelled")
        => /\ \A i \in DOMAIN tasks : tasks[i] # "pending"
           /\ \A i \in DOMAIN tasks :
                 (tasks[i] = "done" /\ projects[i] # cands[i])
                    => \E j \in 1..Len(detailed) :
                          detailed[j] = i /\ ret.projects[j] = projects[i]

\* C39: a scrape_page call of WebScraper that waits in its retry backoff
\* holds no permit of the semaphore.
C39_NoPermitHeldInBackoff ==
    \A c \in DOMAIN calls :
        (client = "WebScraper" /\ calls[c].pc \in {"sleep_in", "sleep_out"})
            => c \notin Holding

\* C40: for every page of yuanjisong with one candidate or more, the
\* aggregate deadline of the fan-out is not shorter than the timeout of a
\* single detail fetch.
C40_AggregateDeadlineCoversDetailTimeout ==
    (pc = "Enriching" /\ platform = "yuanjisong" /\ Len(projects) >= 1)
        => AggregateDeadline(Len(projects)) >= DetailTimeout


\* The heading lines of a sxsapi listing that are emitted as candidates, and
\* the line of the j-th of them
EmittedHeadings(markup) ==
    {i \in DOMAIN markup : markup[i].kind = "heading" /\ ~markup[i].nav}
HeadingOf(markup, j) ==
    CHOOSE i \in EmittedHeadings(markup) :
        Cardinality({k \in EmittedHeadings(markup) : k <= i}) = j

\* C33: in SxsapiScraper.extract_project_links the duration of an emitted
\* candidate is the value of a duration line that lies after the heading
\* line of the candidate and before the next heading line of the markup,
\* emitted or not.
C33_AttributesStayWithTheirHeading ==
    (disc_out # NoOut /\ disc_platform = "sxsapi")
        => \A j \in 1..Len(disc_out) :
              "duration" \in DOMAIN disc_out[j]
                 => LET h == HeadingOf(disc_markup, j)
                    IN  \E i \in (h + 1)..Len(disc_markup) :
                           /\ disc_markup[i].kind = "duration"
                           /\ disc_markup[i].value = disc_out[j]["duration"]
                           /\ \A k \in (h + 1)..(i - 1) : disc_markup[k].kind # "heading"

\* C37: no candidate that extract_project_links returns has a title that
\* holds a phrase of the denylist.
C37_NoDenylistedTitleIsEmitted ==
    disc_out # NoOut
        => \A i \in 1..Len(disc_out) :
              "title" \in DOMAIN disc_out[i] => disc_out[i]["title"] \notin DenylistTexts


\* The function called on its own has returned
Called(f) == call_fn = f /\ call_out # NoResult

\* C31: two calls of save_results in a row with the same list leave the file
\* as one call leaves it: when both writes end the same way the file is the
\* file after the first call, and when the second write succeeds the file
\* holds exactly the list.
C31_SaveResultsIsIdempotent ==
    (Called("BaseScraper.save_results") /\ Len(call_out.writes) = 2)
        => /\ call_out.writes[1] = call_out.writes[2]
                => call_out.file = call_out.once
           /\ call_out.writes[2] = "ok"
                => call_out.file = [valid |-> TRUE, data |-> call_arg.results]

C31_Witness ==
    /\ Called("BaseScraper.save_results")
    /\ call_out.writes = <<"ok", "ok">>
    /\ call_arg.file.valid
    /\ Len(call_arg.results) = 2
    /\ call_out.file = [valid |-> TRUE, data |-> call_arg.results]

\* C34: when the text of the daily salary row of a yuanjisong detail page
\* holds no digit, extract_project_details leaves out the salary and still
\* returns the title and the description it found.
C34_DigitlessFieldAloneIsOmitted ==
    (Called("YuanjisongScraper.extract_project_details")
       /\ call_arg.salary # Absent /\ Digits(call_arg.salary) = "")
        => /\ "daily_salary" \notin DOMAIN call_out.value
           /\ call_arg.h2 # Absent
                => Get(call_out.value, "title") = Strip(call_arg.h2)
           /\ call_arg.desc # Absent
                => Get(call_out.value, "description") = Strip(call_arg.desc)

\* C35: the record extract_project_details returns, in both scrapers, has no
\* key whose value is None or the empty text.
C35_NoPlaceholderValues ==
    (Called("YuanjisongScraper.extract_project_details")
       \/ Called("SxsapiScraper.extract_project_details"))
        => \A k \in DOMAIN call_out.value : TruthyStr(call_out.value[k])

\* The texts of the elements an ordered rule list finds, "" for a rule that
\* finds nothing
TextsOf(rules) == [k \in 1..Len(rules) |-> IF rules[k].found THEN Strip(rules[k].text) ELSE ""]
ParentTextsOf(rules) ==
    [k \in 1..Len(rules) |-> IF rules[k].found THEN Strip(rules[k].parent) ELSE ""]

\* v is the text of the first rule, in order, whose text is not empty
IsFirstNonEmpty(v, texts) ==
    (\E k \in 1..Len(texts) : texts[k] # "")
        => \E k \in 1..Len(texts) :
              /\ texts[k] # ""
              /\ \A m \in 1..(k - 1) : texts[m] = ""
              /\ v = texts[k]

\* C36: every field of a job that parse_yuanjisong returns has the value of
\* the first rule, in order, whose match is non-empty: rules that find nothing
\* or an element with empty text are passed over.
C36_FirstNonEmptyRuleWins ==
    Called("WebScraper.parse_yuanjisong")
        => \A j \in 1..Len(call_out.value) :
              /\ IsFirstNonEmpty(call_out.value[j].title, TextsOf(call_arg[j].title))
              /\ IsFirstNonEmpty(call_out.value[j].description,
                                 TextsOf(call_arg[j].description))
              /\ IsFirstNonEmpty(call_out.value[j].price, TextsOf(call_arg[j].price))
              /\ IsFirstNonEmpty(call_out.value[j].duration,
                                 ParentTextsOf(call_arg[j].duration))

====
